---- MODULE Spec2Model ----
(***************************************************************************)
(* A model of minqlx/_core.py: the plugin lifecycle manager (load_plugin,  *)
(* unload_plugin, reload_plugin, load_preset_plugins), the frame-task       *)
(* decorators (next_frame, delay), the thread decorator and                *)
(* parse_variables.                                                        *)
(*                                                                         *)
(* The lifecycle functions are modelled statement by statement with an     *)
(* explicit call stack, because load_plugin and reload_plugin call each    *)
(* other and the claims speak about moments inside a call (the dispatch of *)
(* the unload event, the point where an exception is raised).              *)
(***************************************************************************)
EXTENDS Integers, Sequences, FiniteSets, TLC

\* ---------------------------------------------------------------- bounds
MaxCalls == 2      \* top-level lifecycle calls in one behaviour
MaxHooks == 2      \* hooks a constructor registers
MaxCmds == 1       \* commands a constructor registers
MaxFaults == 1     \* exceptions raised by the host's dispatch / removal code per call
MaxTasks == 3      \* tasks entered into frame_tasks in one behaviour
MaxTime == 1       \* the clock stops here
MaxTicks == 2      \* frames (pump calls) in one behaviour
MaxDelay == 1      \* the longest delay(time) argument
MaxSpawn == 4      \* threads started in one behaviour
MaxMainCalls == 2  \* calls of thread-wrapped functions from the main thread
MaxLen == 4        \* the longest varstr given to parse_variables

\* ---------------------------------------------------------------- domains
Names == {"p", "q"}

\* What is found at <pluginsPath>/<name>.py:
\*   "missing"   no such file
\*   "ok"        defines a class <name> that subclasses minqlx.Plugin
\*   "noattr"    defines no member called <name>
\*   "notplugin" defines a class <name> that is no subclass of minqlx.Plugin
\*   "raises"    executing the module body raises
FileKinds == {"missing", "ok", "noattr", "notplugin", "raises"}

\* Exceptions: PluginLoadError, PluginUnloadError, anything else.
NoExc == "none"
PLE == "PluginLoadError"
PUE == "PluginUnloadError"
OtherExc == "Exception"

VARIABLES
    reg,        \* minqlx.Plugin._loaded_plugins: name -> instance id, 0 = absent
    hooks,      \* name -> the hooks container of the latest instance of that plugin
    cmds,       \* name -> the commands container of the latest instance
    modules,    \* _modules: the names with a cached module handle
    sysmod,     \* sys.modules: name -> "none" or what the imported module defines
    file,       \* name -> FileKinds, the plugin file on disk
    ninst,      \* instances constructed so far (the next instance is ninst + 1)
    stack,      \* the call stack, innermost frame last
    exc,        \* the exception in flight (or the one that reached the caller)
    faults,     \* exceptions the host raised during the current top-level call
    ncalls,     \* top-level calls made so far
    edited,     \* whether the plugin files changed since the last call
    op,         \* the current / last top-level call: [f, p]
    start,      \* the state at the start of that call
    tr          \* the events of that call, in order

VARIABLES
    now,        \* the clock frame_tasks reads
    tick,       \* frames started so far: the pump of tick T is the T-th pump call
    pumping,    \* whether a pump call is in progress
    queue,      \* minqlx.frame_tasks: the tasks entered and not yet run
    seqno,      \* tasks entered so far
    xlog,       \* the tasks run so far, in the order they ran
    pends       \* the clock at the end of each finished pump call

VARIABLES
    _thread_count,  \* the global counter of thread()
    thr,            \* the threads, in the order they were started; thr[1] is the main thread
    mcalls,         \* the wrapped functions called from the main thread, one entry per call
    inl             \* per call of mcalls: the wrapped functions run inline under it

varsS == <<now, tick, pumping, queue, seqno, xlog, pends>>

VARIABLES
    varstr,     \* parse_variables: the string given
    ordered,    \* parse_variables: the ordered argument
    result      \* parse_variables: what the call returned or raised

VARIABLES
    plugins_cvar,   \* the qlx_plugins cvar: the entries between the commas
    isdir,          \* os.path.isdir(plugins_path)
    plugins,        \* load_preset_plugins: the names still to be loaded
    pcalls,         \* the names load_plugin has been called with, in order
    pres            \* load_preset_plugins: where the call is, or how it ended

varsT == <<_thread_count, thr, mcalls, inl>>

varsV == <<varstr, ordered, result>>

varsL == <<plugins_cvar, isdir, plugins, pcalls, pres>>

\* The state of the utilities, which the lifecycle and the frame tasks leave alone.
varsU == <<varsT, varsV, varsL>>

varsP == <<reg, hooks, cmds, modules, sysmod, file, ninst, stack, exc, faults,
           ncalls, edited, op, start, tr>>

\* ---------------------------------------------------------------- helpers
\* An event of the trace: e the kind of event, f the function it happens in,
\* p the plugin name, n a number (a call depth, an instance id or an item), x a
\* tag (the exception raised), r the registry entry of p, h and c the hooks
\* and commands containers of p.
EvS(e, f, p, n, x, r, h, c) ==
    [e |-> e, f |-> f, p |-> p, n |-> n, x |-> x, r |-> r, h |-> h, c |-> c]

\* An event that records the registry entry and the containers of p as they
\* are when it happens.
Ev(e, f, p, n, x) == EvS(e, f, p, n, x, reg[p], hooks[p], cmds[p])

Frame(fn, p, pc) == [fn |-> fn, p |-> p, pc |-> pc, i |-> 0]

Top == stack[Len(stack)]

Idle == stack = <<>>

Running(fn, pc) == ~Idle /\ Top.fn = fn /\ Top.pc = pc

Cur == [reg |-> reg, hooks |-> hooks, cmds |-> cmds, modules |-> modules,
        sysmod |-> sysmod, file |-> file, ninst |-> ninst]

\* The frame on top with its pc (and loop index) replaced.
SetTop(pc, i) == [stack EXCEPT ![Len(stack)] = [@ EXCEPT !.pc = pc, !.i = i]]

Pop == SubSeq(stack, 1, Len(stack) - 1)

\* list.remove(x): the list without the first element equal to x.
RECURSIVE ListRemove(_, _)
ListRemove(s, x) ==
    IF s = <<>> THEN <<>>
    ELSE IF Head(s) = x THEN Tail(s)
    ELSE <<Head(s)>> \o ListRemove(Tail(s), x)

Iota(n) == [k \in 1..n |-> k]

\* ------------------------------------------------- calls, returns, raises
\* The running function calls fn(p): its own frame waits at pc `wait`.
PushCall(fn, p, wait, evs) ==
    /\ stack' = Append(SetTop(wait, 0), Frame(fn, p, "entry"))
    /\ tr' = tr \o evs \o <<Ev("call", fn, p, Len(stack) + 1, "")>>
    /\ exc' = NoExc

\* The running function returns normally.
Return(evs) ==
    /\ stack' = Pop
    /\ exc' = NoExc
    /\ tr' = tr \o evs \o <<Ev("return", Top.fn, Top.p, Len(stack), "")>>

\* The running function lets an exception of kind k reach its caller, after
\* log_exception when logged.
Raise(k, logged, evs) ==
    /\ stack' = Pop
    /\ exc' = k
    /\ tr' = tr \o evs
              \o (IF logged THEN <<Ev("log", Top.fn, Top.p, Len(stack), k)>>
                  ELSE <<>>)
              \o <<Ev("raise", Top.fn, Top.p, Len(stack), k)>>

dataP == <<reg, hooks, cmds, modules, sysmod, file, ninst>>

bookP == <<faults, ncalls, edited, op, start>>

\* What the host's code (the unload dispatcher, Plugin.remove_hook,
\* Plugin.remove_command) may do when called: return, or raise.
HostOutcomes == {NoExc, PUE, OtherExc}

\* What a plugin's constructor may do: register nh hooks and nc commands and
\* then return, or raise after having registered them.
\* Plugin "q" is a plain bystander: its constructor registers one hook and one
\* command and does not raise.
CtorChoices(p) ==
    IF p = "q" THEN {[nh |-> 1, nc |-> 1, fail |-> FALSE]}
    ELSE [nh : 0..MaxHooks, nc : 0..MaxCmds, fail : BOOLEAN]

\* ------------------------------------------------------------ load_plugin
\* importlib.import_module: what the module defines under the plugin's name,
\* or "raise". A module already in sys.modules is returned as it is, without
\* being executed again.
ImportModule(S, p) ==
    IF S.sysmod[p] # "none" THEN S.sysmod[p]
    ELSE IF S.file[p] \in {"raises", "missing"} THEN "raise"
    ELSE S.file[p]

\* A variant of LoadFresh that caches the module in _modules only once the
\* plugin has been constructed.
LoadFreshCacheOnSuccess(S, p, ch) ==
    LET a == ImportModule(S, p)
        S1 == IF a = "raise" THEN S ELSE [S EXCEPT !.sysmod[p] = a]
        S2 == [S1 EXCEPT !.ninst = @ + 1,
                         !.hooks[p] = Iota(ch.nh),
                         !.cmds[p] = Iota(ch.nc)]
    IN  CASE a = "raise"     -> [st |-> S1, exc |-> OtherExc]
          [] a = "noattr"    -> [st |-> S1, exc |-> PLE]
          [] a = "notplugin" -> [st |-> S1, exc |-> PLE]
          [] a = "ok" /\ ch.fail  -> [st |-> S2, exc |-> OtherExc]
          [] a = "ok" /\ ~ch.fail ->
                [st |-> [S2 EXCEPT !.reg[p] = S2.ninst,
                                   !.modules = @ \cup {p}],
                 exc |-> NoExc]

\* The try block of load_plugin (the plugin is not in the registry and its
\* file exists), from state S with the constructor behaving as ch: the state
\* it leaves and the exception it raises.
LoadFresh(S, p, ch) ==
    LET a == ImportModule(S, p)
        S1 == IF a = "raise" THEN S
              ELSE [S EXCEPT !.sysmod[p] = a, !.modules = @ \cup {p}]
        S2 == [S1 EXCEPT !.ninst = @ + 1,
                         !.hooks[p] = Iota(ch.nh),
                         !.cmds[p] = Iota(ch.nc)]
    IN  CASE a = "raise"     -> [st |-> S1, exc |-> OtherExc]
          [] a = "noattr"    -> [st |-> S1, exc |-> PLE]
          [] a = "notplugin" -> [st |-> S1, exc |-> PLE]
          [] a = "ok" /\ ch.fail  -> [st |-> S2, exc |-> OtherExc]
          [] a = "ok" /\ ~ch.fail ->
                [st |-> [S2 EXCEPT !.reg[p] = S2.ninst], exc |-> NoExc]

\* load_plugin(p) on a state where p is not in the registry.
LoadOutcome(S, p, ch) ==
    IF S.file[p] = "missing" THEN [st |-> S, exc |-> PLE]
    ELSE LoadFresh(S, p, ch)

\* The events of the try block.
LoadEvents(S, p, ch) ==
    LET a == ImportModule(S, p)
    IN  <<Ev("import_module", "load", p, 0, a)>>
        \o (IF a = "ok"
            THEN <<EvS("construct", "load", p, S.ninst + 1,
                       IF ch.fail THEN "raise" ELSE "ok", S.reg[p],
                       Iota(ch.nh), Iota(ch.nc))>>
            ELSE <<>>)

\* A variant of LoadEntry that refuses a plugin that is already loaded.
LoadEntryDuplicateError ==
    /\ Running("load", "entry")
    /\ IF file[Top.p] = "missing" \/ reg[Top.p] # 0
       THEN Raise(PLE, FALSE, <<>>)
       ELSE stack' = SetTop("body", 0) /\ UNCHANGED <<tr, exc>>
    /\ UNCHANGED <<dataP, bookP>>
    /\ UNCHANGED <<varsS, varsU>>

\* A variant of LoadEntry that looks at the registry before it looks for the file.
LoadEntryRegistryFirst ==
    /\ Running("load", "entry")
    /\ IF reg[Top.p] # 0
       THEN PushCall("reload", Top.p, "after_reload", <<>>)
       ELSE IF file[Top.p] = "missing"
       THEN Raise(PLE, FALSE, <<>>)
       ELSE stack' = SetTop("body", 0) /\ UNCHANGED <<tr, exc>>
    /\ UNCHANGED <<dataP, bookP>>
    /\ UNCHANGED <<varsS, varsU>>

\* if not isfile: raise PluginLoadError / elif plugin in plugins: return reload_plugin(plugin)
LoadEntry ==
    /\ Running("load", "entry")
    /\ IF file[Top.p] = "missing"
       THEN Raise(PLE, FALSE, <<>>)
       ELSE IF reg[Top.p] # 0
       THEN PushCall("reload", Top.p, "after_reload", <<>>)
       ELSE stack' = SetTop("body", 0) /\ UNCHANGED <<tr, exc>>
    /\ UNCHANGED <<dataP, bookP>>
    /\ UNCHANGED <<varsS, varsU>>

\* return reload_plugin(plugin): outside the try block.
LoadAfterReload ==
    /\ Running("load", "after_reload")
    /\ IF exc = NoExc THEN Return(<<>>) ELSE Raise(exc, FALSE, <<>>)
    /\ UNCHANGED <<dataP, bookP>>
    /\ UNCHANGED <<varsS, varsU>>

\* try: import, cache the module, look the class up, instantiate, register.
\* except: log_exception; raise
LoadBody ==
    /\ Running("load", "body")
    /\ \E ch \in CtorChoices(Top.p) :
         LET r == LoadFresh(Cur, Top.p, ch)
             evs == LoadEvents(Cur, Top.p, ch)
         IN  /\ reg' = r.st.reg
             /\ hooks' = r.st.hooks
             /\ cmds' = r.st.cmds
             /\ modules' = r.st.modules
             /\ sysmod' = r.st.sysmod
             /\ ninst' = r.st.ninst
             /\ IF r.exc = NoExc THEN Return(evs) ELSE Raise(r.exc, TRUE, evs)
    /\ UNCHANGED <<file, bookP>>
    /\ UNCHANGED <<varsS, varsU>>

\* ---------------------------------------------------------- unload_plugin
\* The plugin's `hooks` and `commands`: its mutable ordered containers.
PluginHooks(p) == hooks[p]

PluginCommands(p) == cmds[p]

\* Python's list iterator: the loop has a next item while the index is below
\* the list's current length.
HasNext(list, i) == i < Len(list)

NextItem(list, i) == list[i + 1]

\* A variant of UnloadEntry that starts removing hooks before the unload event
\* is dispatched.
UnloadEntryRemoveFirst ==
    /\ Running("unload", "entry")
    /\ IF reg[Top.p] # 0
       THEN stack' = SetTop("hooks", 0) /\ UNCHANGED <<tr, exc>>
       ELSE Raise(PUE, FALSE, <<>>)
    /\ UNCHANGED <<dataP, bookP>>
    /\ UNCHANGED <<varsS, varsU>>

\* A variant of UnloadEntry that does not check that the plugin is loaded.
UnloadEntryNoCheck ==
    /\ Running("unload", "entry")
    /\ stack' = SetTop("dispatch", 0)
    /\ UNCHANGED <<tr, exc>>
    /\ UNCHANGED <<dataP, bookP>>
    /\ UNCHANGED <<varsS, varsU>>

\* if plugin in plugins: ... else: raise PluginUnloadError
UnloadEntry ==
    /\ Running("unload", "entry")
    /\ IF reg[Top.p] # 0
       THEN stack' = SetTop("dispatch", 0) /\ UNCHANGED <<tr, exc>>
       ELSE Raise(PUE, FALSE, <<>>)
    /\ UNCHANGED <<dataP, bookP>>
    /\ UNCHANGED <<varsS, varsU>>

\* minqlx.EVENT_DISPATCHERS["unload"].dispatch(plugin)
UnloadDispatch ==
    /\ Running("unload", "dispatch")
    /\ \E k \in HostOutcomes :
         LET ev == Ev("dispatch", "unload", Top.p, reg[Top.p], k)
         IN  IF k = NoExc
             THEN /\ stack' = SetTop("hooks", 0)
                  /\ tr' = Append(tr, ev)
                  /\ UNCHANGED <<exc, faults>>
             ELSE /\ faults < MaxFaults
                  /\ faults' = faults + 1
                  /\ Raise(k, TRUE, <<ev>>)
    /\ UNCHANGED <<dataP, ncalls, edited, op, start>>
    /\ UNCHANGED <<varsS, varsU>>

\* A variant of UnloadHooks that deletes the registry entry when remove_hook
\* raises.
UnloadHooksDelOnFail ==
    /\ Running("unload", "hooks")
    /\ IF HasNext(PluginHooks(Top.p), Top.i)
       THEN \E k \in HostOutcomes :
              LET item == NextItem(PluginHooks(Top.p), Top.i)
                  ev == Ev("remove_hook", "unload", Top.p, item, k)
              IN  IF k = NoExc
                  THEN /\ hooks' = [hooks EXCEPT ![Top.p] = ListRemove(@, item)]
                       /\ stack' = SetTop("hooks", Top.i + 1)
                       /\ tr' = Append(tr, ev)
                       /\ UNCHANGED <<exc, faults, reg>>
                  ELSE /\ faults < MaxFaults
                       /\ faults' = faults + 1
                       /\ Raise(k, TRUE, <<ev>>)
                       /\ reg' = [reg EXCEPT ![Top.p] = 0]
                       /\ UNCHANGED hooks
       ELSE /\ stack' = SetTop("cmds", 0)
            /\ UNCHANGED <<hooks, tr, exc, faults, reg>>
    /\ UNCHANGED <<cmds, modules, sysmod, file, ninst, ncalls, edited, op, start>>
    /\ UNCHANGED <<varsS, varsU>>

\* for hook in plugins[plugin].hooks: plugins[plugin].remove_hook(*hook)
UnloadHooks ==
    /\ Running("unload", "hooks")
    /\ IF HasNext(PluginHooks(Top.p), Top.i)
       THEN \E k \in HostOutcomes :
              LET item == NextItem(PluginHooks(Top.p), Top.i)
                  ev == Ev("remove_hook", "unload", Top.p, item, k)
              IN  IF k = NoExc
                  THEN /\ hooks' = [hooks EXCEPT ![Top.p] = ListRemove(@, item)]
                       /\ stack' = SetTop("hooks", Top.i + 1)
                       /\ tr' = Append(tr, ev)
                       /\ UNCHANGED <<exc, faults>>
                  ELSE /\ faults < MaxFaults
                       /\ faults' = faults + 1
                       /\ Raise(k, TRUE, <<ev>>)
                       /\ UNCHANGED hooks
       ELSE /\ stack' = SetTop("cmds", 0)
            /\ UNCHANGED <<hooks, tr, exc, faults>>
    /\ UNCHANGED <<reg, cmds, modules, sysmod, file, ninst, ncalls, edited, op, start>>
    /\ UNCHANGED <<varsS, varsU>>

\* for cmd in plugins[plugin].commands: plugins[plugin].remove_command(cmd.name, cmd.handler)
UnloadCmds ==
    /\ Running("unload", "cmds")
    /\ IF HasNext(PluginCommands(Top.p), Top.i)
       THEN \E k \in HostOutcomes :
              LET item == NextItem(PluginCommands(Top.p), Top.i)
                  ev == Ev("remove_command", "unload", Top.p, item, k)
              IN  IF k = NoExc
                  THEN /\ cmds' = [cmds EXCEPT ![Top.p] = ListRemove(@, item)]
                       /\ stack' = SetTop("cmds", Top.i + 1)
                       /\ tr' = Append(tr, ev)
                       /\ UNCHANGED <<exc, faults>>
                  ELSE /\ faults < MaxFaults
                       /\ faults' = faults + 1
                       /\ Raise(k, TRUE, <<ev>>)
                       /\ UNCHANGED cmds
       ELSE /\ stack' = SetTop("del", 0)
            /\ UNCHANGED <<cmds, tr, exc, faults>>
    /\ UNCHANGED <<reg, hooks, modules, sysmod, file, ninst, ncalls, edited, op, start>>
    /\ UNCHANGED <<varsS, varsU>>

\* del plugins[plugin]
UnloadDel ==
    /\ Running("unload", "del")
    /\ reg' = [reg EXCEPT ![Top.p] = 0]
    /\ Return(<<Ev("del", "unload", Top.p, reg[Top.p], "")>>)
    /\ UNCHANGED <<hooks, cmds, modules, sysmod, file, ninst, bookP>>
    /\ UNCHANGED <<varsS, varsU>>

\* ---------------------------------------------------------- reload_plugin
\* try: unload_plugin(plugin)
ReloadEntry ==
    /\ Running("reload", "entry")
    /\ PushCall("unload", Top.p, "after_unload", <<>>)
    /\ UNCHANGED <<dataP, bookP>>
    /\ UNCHANGED <<varsS, varsU>>

\* A variant of ReloadAfterUnload that lets PluginUnloadError through.
ReloadAfterUnloadNoCatch ==
    /\ Running("reload", "after_unload")
    /\ IF exc = NoExc
       THEN /\ stack' = SetTop("module", 0)
            /\ UNCHANGED <<exc, tr>>
       ELSE Raise(exc, FALSE, <<>>)
    /\ UNCHANGED <<dataP, bookP>>
    /\ UNCHANGED <<varsS, varsU>>

\* except PluginUnloadError: pass
ReloadAfterUnload ==
    /\ Running("reload", "after_unload")
    /\ IF exc \in {NoExc, PUE}
       THEN /\ stack' = SetTop("module", 0)
            /\ exc' = NoExc
            /\ tr' = IF exc = PUE
                     THEN Append(tr, Ev("swallow", "reload", Top.p, Len(stack), PUE))
                     ELSE tr
       ELSE Raise(exc, FALSE, <<>>)
    /\ UNCHANGED <<dataP, bookP>>
    /\ UNCHANGED <<varsS, varsU>>

\* importlib.reload(module): the module's file is executed again, in place.
ReExecutes(k) == k \notin {"missing", "raises"}

\* A variant of ReloadModule with load_plugin(plugin) indented under the if:
\* a plugin with no cached module is not loaded.
ReloadModuleLoadUnderIf ==
    /\ Running("reload", "module")
    /\ LET p == Top.p
           ev == Ev("reload_module", "reload", p, 0, file[p])
       IN  IF p \in modules
           THEN IF ReExecutes(file[p])
                THEN /\ sysmod' = [sysmod EXCEPT ![p] = file[p]]
                     /\ PushCall("load", p, "after_load", <<ev>>)
                ELSE /\ Raise(OtherExc, TRUE, <<ev>>)
                     /\ UNCHANGED sysmod
           ELSE /\ Return(<<>>)
                /\ UNCHANGED sysmod
    /\ UNCHANGED <<reg, hooks, cmds, modules, file, ninst, bookP>>
    /\ UNCHANGED <<varsS, varsU>>

\* try: if plugin in _modules: importlib.reload(_modules[plugin]); load_plugin(plugin)
ReloadModule ==
    /\ Running("reload", "module")
    /\ LET p == Top.p
           ev == Ev("reload_module", "reload", p, 0, file[p])
       IN  IF p \in modules
           THEN IF ReExecutes(file[p])
                THEN /\ sysmod' = [sysmod EXCEPT ![p] = file[p]]
                     /\ PushCall("load", p, "after_load", <<ev>>)
                ELSE /\ Raise(OtherExc, TRUE, <<ev>>)
                     /\ UNCHANGED sysmod
           ELSE /\ PushCall("load", p, "after_load", <<>>)
                /\ UNCHANGED sysmod
    /\ UNCHANGED <<reg, hooks, cmds, modules, file, ninst, bookP>>
    /\ UNCHANGED <<varsS, varsU>>

\* except: log_exception(plugin); raise
ReloadAfterLoad ==
    /\ Running("reload", "after_load")
    /\ IF exc = NoExc THEN Return(<<>>) ELSE Raise(exc, TRUE, <<>>)
    /\ UNCHANGED <<dataP, bookP>>
    /\ UNCHANGED <<varsS, varsU>>

\* ------------------------------------------------------------ environment
\* The host (a command of the plugin manager, a scheduled task) calls
\* load_plugin, unload_plugin or reload_plugin.
Call(fn, p) ==
    /\ Idle
    /\ ncalls < MaxCalls
    /\ stack' = <<Frame(fn, p, "entry")>>
    /\ tr' = <<Ev("call", fn, p, 1, "")>>
    /\ exc' = NoExc
    /\ faults' = 0
    /\ ncalls' = ncalls + 1
    /\ op' = [f |-> fn, p |-> p]
    /\ start' = Cur
    /\ edited' = FALSE
    /\ UNCHANGED <<dataP, varsS, varsU>>

CallLoad == \E p \in Names : Call("load", p)

CallUnload == \E p \in Names : Call("unload", p)

CallReload == \E p \in Names : Call("reload", p)

\* Between two calls a plugin file changes on disk (several changes in a row
\* amount to one). The file of the bystander plugin stays as it is.
EditFile ==
    /\ Idle
    /\ ncalls > 0
    /\ ~edited
    /\ edited' = TRUE
    /\ \E k \in FileKinds :
         /\ file["p"] # k
         /\ file' = [file EXCEPT !["p"] = k]
    /\ UNCHANGED <<reg, hooks, cmds, modules, sysmod, ninst, stack, exc, tr,
                   faults, ncalls, op, start>>
    /\ UNCHANGED <<varsS, varsU>>

InitP ==
    /\ reg = [p \in Names |-> 0]
    /\ hooks = [p \in Names |-> <<>>]
    /\ cmds = [p \in Names |-> <<>>]
    /\ modules = {}
    /\ sysmod = [p \in Names |-> "none"]
    /\ file \in {f \in [Names -> FileKinds] : f["q"] = "ok"}
    /\ ninst = 0
    /\ stack = <<>>
    /\ exc = NoExc
    /\ faults = 0
    /\ ncalls = 0
    /\ edited = FALSE
    /\ op = [f |-> "none", p |-> "p"]
    /\ start = Cur
    /\ tr = <<>>

NextP ==
    \/ CallLoad \/ CallUnload \/ CallReload \/ EditFile
    \/ LoadEntry \/ LoadAfterReload \/ LoadBody
    \/ UnloadEntry \/ UnloadDispatch \/ UnloadHooks \/ UnloadCmds \/ UnloadDel
    \/ ReloadEntry \/ ReloadAfterUnload \/ ReloadModule \/ ReloadAfterLoad

\* ---------------------------------------------------------- frame tasks
\* A variant of NextFrameArgs with another priority.
NextFrameArgsLowPriority == [delay |-> 0, prio |-> 1]

\* The arguments next_frame passes to frame_tasks.enter: enter(0, 0, func, ...)
NextFrameArgs == [delay |-> 0, prio |-> 0]

\* A variant of DelayArgs that drops the delay.
DelayArgsNoDelay(time) == [delay |-> 0, prio |-> 0]

\* The arguments a delay(time) wrapper passes: enter(time, 0, func, ...)
DelayArgs(time) == [delay |-> time, prio |-> 0]

\* frame_tasks.enter(delay, priority, ...): the task fires no earlier than
\* `delay` after the call. The task also carries, for the record, how it was
\* entered: by which wrapper, at what time, with what declared delay, in which
\* tick, from inside a pump call or not.
Enter(q, a, via, declared) ==
    q \cup {[time |-> now + a.delay, prio |-> a.prio, seq |-> seqno + 1,
             via |-> via, at |-> now, d |-> declared,
             stick |-> tick, spump |-> pumping]}

\* The queue's order: fire-time, then priority, then insertion sequence.
Before(a, b) ==
    \/ a.time < b.time
    \/ a.time = b.time /\ a.prio < b.prio
    \/ a.time = b.time /\ a.prio = b.prio /\ a.seq < b.seq

First(q) == CHOOSE t \in q : \A u \in q \ {t} : Before(t, u)

\* Whether the first task's fire-time has come.
HasDue == IF queue = {} THEN FALSE ELSE First(queue).time <= now

\* What a task's callback does when it runs: nothing that matters here, or
\* call a next_frame-wrapped function, or call a delay-wrapped function.
Bodies == {"plain", "next_frame", "delay"}

\* A next_frame-wrapped function is called outside a pump call.
CallNextFrame ==
    /\ ~pumping
    /\ seqno < MaxTasks
    /\ queue' = Enter(queue, NextFrameArgs, "next_frame", 0)
    /\ seqno' = seqno + 1
    /\ UNCHANGED <<now, tick, pumping, xlog, pends>>
    /\ UNCHANGED <<varsP, varsU>>

\* A delay(time)-wrapped function is called outside a pump call.
CallDelay ==
    /\ ~pumping
    /\ seqno < MaxTasks
    /\ \E time \in 0..MaxDelay : queue' = Enter(queue, DelayArgs(time), "delay", time)
    /\ seqno' = seqno + 1
    /\ UNCHANGED <<now, tick, pumping, xlog, pends>>
    /\ UNCHANGED <<varsP, varsU>>

\* Time passes, between pump calls and during one.
ClockTick ==
    /\ now < MaxTime
    /\ now' = now + 1
    /\ UNCHANGED <<tick, pumping, queue, seqno, xlog, pends>>
    /\ UNCHANGED <<varsP, varsU>>

\* The host starts a frame: it calls pump.
PumpStart ==
    /\ ~pumping
    /\ tick < MaxTicks
    /\ tick' = tick + 1
    /\ pumping' = TRUE
    /\ UNCHANGED <<now, queue, seqno, xlog, pends>>
    /\ UNCHANGED <<varsP, varsU>>

\* pump runs the first task if its fire-time has come; the task's callback
\* runs inline and may itself call a wrapped function.
PumpRun ==
    /\ pumping
    /\ HasDue
    /\ LET t == First(queue)
           rest == queue \ {t}
       IN  /\ xlog' = Append(xlog, t @@ [xtick |-> tick, xnow |-> now])
           /\ \E b \in Bodies :
                CASE b = "plain" ->
                       queue' = rest /\ UNCHANGED seqno
                  [] b = "next_frame" ->
                       /\ seqno < MaxTasks
                       /\ queue' = Enter(rest, NextFrameArgs, "next_frame", 0)
                       /\ seqno' = seqno + 1
                  [] b = "delay" ->
                       /\ seqno < MaxTasks
                       /\ \E time \in 0..MaxDelay :
                            queue' = Enter(rest, DelayArgs(time), "delay", time)
                       /\ seqno' = seqno + 1
    /\ UNCHANGED <<now, tick, pumping, pends>>
    /\ UNCHANGED <<varsP, varsU>>

\* pump returns when no task is due.
PumpEnd ==
    /\ pumping
    /\ ~HasDue
    /\ pumping' = FALSE
    /\ pends' = Append(pends, now)
    /\ UNCHANGED <<now, tick, queue, seqno, xlog>>
    /\ UNCHANGED <<varsP, varsU>>

InitS ==
    /\ now = 0
    /\ tick = 0
    /\ pumping = FALSE
    /\ queue = {}
    /\ seqno = 0
    /\ xlog = <<>>
    /\ pends = <<>>

NextSched == CallNextFrame \/ CallDelay \/ ClockTick \/ PumpStart \/ PumpRun \/ PumpEnd

\* ----------------------------------------------------------------- thread
_thread_name == "minqlxthread"

\* A thread name: here the function's name, the counter's value and the last
\* part of the name, for func.__name__ + "-{}-{}".format(count, _thread_name).
ThreadName(func, count) == [func |-> func, tag |-> count, suffix |-> _thread_name]

\* The main thread's name is "MainThread".
MainThreadName == [func |-> "", tag |-> 0, suffix |-> "MainThread"]

\* name.endswith(suffix)
EndsWith(name, suffix) == name.suffix = suffix

\* A variant of RunsInline that does not look at force.
RunsInlineIgnoringForce(force, name) == EndsWith(name, _thread_name)

\* if not force and threading.current_thread().name.endswith(_thread_name)
RunsInline(force, name) == ~force /\ EndsWith(name, _thread_name)

\* The functions that get wrapped: "plain" calls no wrapped function, "inner"
\* calls a plain function wrapped with thread(func), "innerForce" calls a
\* plain function wrapped with thread(func, force=True).
Funcs == {"plain", "inner", "innerForce"}

\* A thread: its name, the function it runs, the call of mcalls it descends
\* from, where it is, and for the wrapper call it is in: the wrapped function,
\* force, the counter value read for the new thread's name and the counter
\* value read by the increment.
ThreadRec(name, body, root, pc) ==
    [name |-> name, body |-> body, root |-> root, pc |-> pc,
     fbody |-> "none", force |-> FALSE, nm |-> 0, tmp |-> 0]

\* Where a thread goes on when its wrapper call has returned: the main thread
\* is free for another call, a started thread's function has nothing left to do.
AfterCall(t) == IF t = 1 THEN "idle" ELSE "done"

\* The main thread calls a thread-wrapped function.
MainCall ==
    /\ thr[1].pc = "idle"
    /\ Len(mcalls) < MaxMainCalls
    /\ \E b \in Funcs, f \in BOOLEAN :
         /\ thr' = [thr EXCEPT ![1] = [@ EXCEPT !.pc = "check", !.fbody = b,
                                                !.force = f,
                                                !.root = Len(mcalls) + 1]]
         /\ mcalls' = Append(mcalls, [body |-> b])
    /\ inl' = Append(inl, 0)
    /\ UNCHANGED _thread_count
    /\ UNCHANGED <<varsP, varsS, varsV, varsL>>

\* A started thread runs its target: func(*args, **kwargs).
ThreadBegin ==
    /\ \E t \in DOMAIN thr :
         /\ thr[t].pc = "begin"
         /\ thr' = [thr EXCEPT ![t] =
                      IF thr[t].body = "plain" THEN [@ EXCEPT !.pc = "done"]
                      ELSE [@ EXCEPT !.pc = "check", !.fbody = "plain",
                                     !.force = (thr[t].body = "innerForce")]]
    /\ UNCHANGED <<_thread_count, mcalls, inl>>
    /\ UNCHANGED <<varsP, varsS, varsV, varsL>>

\* f(*args, **kwargs): the test, and the inline call func(*args, **kwargs).
WrapperCheck ==
    /\ \E t \in DOMAIN thr :
         /\ thr[t].pc = "check"
         /\ IF RunsInline(thr[t].force, thr[t].name)
            THEN /\ thr' = [thr EXCEPT ![t].pc = AfterCall(t)]
                 /\ inl' = [inl EXCEPT ![thr[t].root] = @ + 1]
            ELSE /\ thr' = [thr EXCEPT ![t].pc = "name"]
                 /\ UNCHANGED inl
    /\ UNCHANGED <<_thread_count, mcalls>>
    /\ UNCHANGED <<varsP, varsS, varsV, varsL>>

\* name = func.__name__ + "-{}-{}".format(str(_thread_count), _thread_name)
WrapperName ==
    /\ \E t \in DOMAIN thr :
         /\ thr[t].pc = "name"
         /\ thr' = [thr EXCEPT ![t] = [@ EXCEPT !.pc = "start", !.nm = _thread_count]]
    /\ UNCHANGED <<_thread_count, mcalls, inl>>
    /\ UNCHANGED <<varsP, varsS, varsV, varsL>>

\* t = threading.Thread(target=func, name=name, ...); t.start()
WrapperStart ==
    /\ Len(thr) - 1 < MaxSpawn
    /\ \E t \in DOMAIN thr :
         /\ thr[t].pc = "start"
         /\ thr' = Append([thr EXCEPT ![t].pc = "load"],
                          ThreadRec(ThreadName(thr[t].fbody, thr[t].nm),
                                    thr[t].fbody, thr[t].root, "begin"))
    /\ UNCHANGED <<_thread_count, mcalls, inl>>
    /\ UNCHANGED <<varsP, varsS, varsV, varsL>>

\* _thread_count += 1: the global is read ...
WrapperIncLoad ==
    /\ \E t \in DOMAIN thr :
         /\ thr[t].pc = "load"
         /\ thr' = [thr EXCEPT ![t] = [@ EXCEPT !.pc = "store", !.tmp = _thread_count]]
    /\ UNCHANGED <<_thread_count, mcalls, inl>>
    /\ UNCHANGED <<varsP, varsS, varsV, varsL>>

\* ... and the sum is stored; return t.
WrapperIncStore ==
    /\ \E t \in DOMAIN thr :
         /\ thr[t].pc = "store"
         /\ _thread_count' = thr[t].tmp + 1
         /\ thr' = [thr EXCEPT ![t].pc = AfterCall(t)]
    /\ UNCHANGED <<mcalls, inl>>
    /\ UNCHANGED <<varsP, varsS, varsV, varsL>>

InitT ==
    /\ _thread_count = 0
    /\ thr = <<ThreadRec(MainThreadName, "main", 0, "idle")>>
    /\ mcalls = <<>>
    /\ inl = <<>>

NextThread ==
    \/ MainCall \/ ThreadBegin \/ WrapperCheck \/ WrapperName \/ WrapperStart
    \/ WrapperIncLoad \/ WrapperIncStore

\* -------------------------------------------------------- parse_variables
\* A string is a sequence of characters; these are the characters that matter
\* to parse_variables: the backslash, a letter and a blank.
BS == "\\"

Chars == {BS, "a", " "}

Strings(n) == UNION {[1..k -> Chars] : k \in 0..n}

\* s.lstrip() and s.rstrip(): without the leading / trailing whitespace.
RECURSIVE LStripSpace(_)
LStripSpace(s) ==
    IF s # <<>> /\ Head(s) = " " THEN LStripSpace(Tail(s)) ELSE s

RECURSIVE RStripSpace(_)
RStripSpace(s) ==
    IF s # <<>> /\ s[Len(s)] = " " THEN RStripSpace(SubSeq(s, 1, Len(s) - 1)) ELSE s

\* s.strip()
Strip(s) == RStripSpace(LStripSpace(s))

\* A variant of LStrip that removes one leading c at most.
LStripOne(s, c) == IF s # <<>> /\ Head(s) = c THEN Tail(s) ELSE s

\* s.lstrip(c): without any of the leading characters c.
RECURSIVE LStrip(_, _)
LStrip(s, c) == IF s # <<>> /\ Head(s) = c THEN LStrip(Tail(s), c) ELSE s

\* s.split(c): the pieces between the occurrences of c, empty pieces included.
RECURSIVE Split(_, _)
Split(s, c) ==
    IF \A i \in DOMAIN s : s[i] # c THEN <<s>>
    ELSE LET i == CHOOSE j \in DOMAIN s :
                     s[j] = c /\ \A k \in 1..(j-1) : s[k] # c
         IN  <<SubSeq(s, 1, i - 1)>> \o Split(SubSeq(s, i + 1, Len(s)), c)

\* res[key] = value on a dict kept as its items in insertion order: a key
\* already there keeps its place and gets the new value.
SetItem(items, key, value) ==
    IF \E k \in DOMAIN items : items[k][1] = key
    THEN [k \in DOMAIN items |->
            IF items[k][1] = key THEN <<key, value>> ELSE items[k]]
    ELSE Append(items, <<key, value>>)

Returned(ord, items) == [kind |-> "return", ordered |-> ord, items |-> items, msg |-> <<>>]

\* raise ValueError("Uneven number of keys and values: {}".format(varstr))
ValueError(s) == [kind |-> "raise", ordered |-> FALSE, items |-> <<>>, msg |-> s]

NoResult == [kind |-> "none", ordered |-> FALSE, items |-> <<>>, msg |-> <<>>]

\* for i in range(0, len(vars), 2): res[vars[i]] = vars[i + 1], from index i
\* (counted from 0) on; vars[i + 1] past the end of the list raises, and the
\* bare except turns that into the ValueError.
RECURSIVE ParseLoop(_, _, _, _, _)
ParseLoop(s, ord, toks, i, items) ==
    IF i >= Len(toks) THEN Returned(ord, items)
    ELSE IF i + 1 >= Len(toks) THEN ValueError(s)
    ELSE ParseLoop(s, ord, toks, i + 2, SetItem(items, toks[i + 1], toks[i + 2]))

parse_variables(s, ord) ==
    IF Strip(s) = <<>> THEN Returned(ord, <<>>)
    ELSE ParseLoop(s, ord, Split(LStrip(s, BS), BS), 0, <<>>)

\* A call of parse_variables(varstr, ordered).
CallParseVariables ==
    /\ result.kind = "none"
    /\ result' = parse_variables(varstr, ordered)
    /\ UNCHANGED <<varstr, ordered>>
    /\ UNCHANGED <<varsP, varsS, varsT, varsL>>

\* No call of parse_variables is made.
InitV ==
    /\ varstr = <<>>
    /\ ordered = FALSE
    /\ result = NoResult

\* The arguments of a call of parse_variables.
InitParse ==
    /\ varstr \in Strings(MaxLen)
    /\ ordered \in BOOLEAN
    /\ result = NoResult

NextParse == CallParseVariables

\* ---------------------------------------------------- load_preset_plugins
\* An entry of the qlx_plugins cvar: a plugin name with pre blanks before it
\* and post blanks after it.
Pads == {0, 1}

Entries == [pre : Pads, name : Names, post : Pads]

\* The values of qlx_plugins: the lists of entries that name each plugin once
\* at most (the default is "plugin_manager, essentials, ...").
CvarLists ==
    {<<>>} \cup {<<e>> : e \in Entries}
           \cup {<<e, f>> : <<e, f>> \in {x \in Entries \X Entries : x[1].name # x[2].name}}

\* p.strip() of an entry
StripEntry(e) == [pre |-> 0, name |-> e.name, post |-> 0]

\* The keys of sys.modules that start with "<plugins_dir>.", without that
\* start: the names of the plugin modules imported.
SysModules(S) == {[pre |-> 0, name |-> n, post |-> 0] : n \in {x \in Names : S.sysmod[x] # "none"}}

\* [p.strip() for p in plugins_cvar.split(",")
\*            if "{}.{}".format(plugins_dir, p) not in sys.modules]
RECURSIVE Filter(_, _)
Filter(list, S) ==
    IF list = <<>> THEN <<>>
    ELSE (IF Head(list) \notin SysModules(S) THEN <<StripEntry(Head(list))>> ELSE <<>>)
         \o Filter(Tail(list), S)

\* load_preset_plugins(): the directory test and the list of names to load.
CallLoadPresetPlugins ==
    /\ pres = "none"
    /\ start' = Cur
    /\ IF isdir
       THEN /\ plugins' = Filter(plugins_cvar, Cur)
            /\ pres' = "loop"
       ELSE /\ pres' = PLE
            /\ UNCHANGED plugins
    /\ UNCHANGED <<plugins_cvar, isdir, pcalls>>
    /\ UNCHANGED <<dataP, stack, exc, faults, ncalls, edited, op, tr>>
    /\ UNCHANGED <<varsS, varsT, varsV>>

\* for plugin in plugins: load_plugin(plugin.strip()); an exception of
\* load_plugin ends the call.
PresetLoad ==
    /\ pres = "loop"
    /\ plugins # <<>>
    /\ LET n == StripEntry(Head(plugins)).name
       IN  \E ch \in CtorChoices(n) :
             LET r == LoadOutcome(Cur, n, ch)
             IN  /\ reg' = r.st.reg
                 /\ hooks' = r.st.hooks
                 /\ cmds' = r.st.cmds
                 /\ modules' = r.st.modules
                 /\ sysmod' = r.st.sysmod
                 /\ ninst' = r.st.ninst
                 /\ pcalls' = Append(pcalls, n)
                 /\ IF r.exc = NoExc
                    THEN plugins' = Tail(plugins) /\ UNCHANGED pres
                    ELSE pres' = r.exc /\ UNCHANGED plugins
    /\ UNCHANGED <<plugins_cvar, isdir>>
    /\ UNCHANGED <<file, stack, exc, faults, ncalls, edited, op, start, tr>>
    /\ UNCHANGED <<varsS, varsT, varsV>>

\* The loop is over: load_preset_plugins returns.
PresetReturn ==
    /\ pres = "loop"
    /\ plugins = <<>>
    /\ pres' = "return"
    /\ UNCHANGED <<plugins_cvar, isdir, plugins, pcalls>>
    /\ UNCHANGED <<varsP, varsS, varsT, varsV>>

\* No call of load_preset_plugins is made.
InitL ==
    /\ plugins_cvar = <<>>
    /\ isdir = TRUE
    /\ plugins = <<>>
    /\ pcalls = <<>>
    /\ pres = "none"

\* The cvar and the directory that a call of load_preset_plugins finds.
InitPresetArgs ==
    /\ plugins_cvar \in CvarLists
    /\ isdir \in BOOLEAN
    /\ plugins = <<>>
    /\ pcalls = <<>>
    /\ pres = "none"

\* The plugin state that a call of load_preset_plugins finds: no plugin is
\* loaded, and the modules of some plugins have been imported (by plugins
\* that were loaded and unloaded again).
InitPresetPlugins ==
    /\ reg = [p \in Names |-> 0]
    /\ hooks = [p \in Names |-> <<>>]
    /\ cmds = [p \in Names |-> <<>>]
    /\ sysmod \in [Names -> {"none", "ok"}]
    /\ modules = {p \in Names : sysmod[p] # "none"}
    /\ file \in {f \in [Names -> FileKinds] : f["q"] = "ok"}
    /\ ninst = 0
    /\ stack = <<>>
    /\ exc = NoExc
    /\ faults = 0
    /\ ncalls = 0
    /\ edited = FALSE
    /\ op = [f |-> "none", p |-> "p"]
    /\ start = Cur
    /\ tr = <<>>

NextPreset == CallLoadPresetPlugins \/ PresetLoad \/ PresetReturn

\* ------------------------------------------------------- specifications
vars == <<varsP, varsS, varsU>>

Init == InitP /\ InitS /\ InitT /\ InitV /\ InitL

\* The plugin lifecycle.
Next == NextP

Spec == Init /\ [][Next]_vars

\* The frame tasks, with no plugin call going on.
InitSched == Init /\ file = [p \in Names |-> "ok"]

SpecSched == InitSched /\ [][NextSched]_vars

\* The thread decorator, with no plugin call and no frame task going on.
SpecThread == InitSched /\ [][NextThread]_vars

\* One call of parse_variables.
InitParseSpec ==
    /\ InitP /\ file = [p \in Names |-> "ok"]
    /\ InitS /\ InitT /\ InitL
    /\ InitParse

SpecParse == InitParseSpec /\ [][NextParse]_vars

\* One call of load_preset_plugins.
InitPresetSpec ==
    /\ InitPresetPlugins
    /\ InitS /\ InitT /\ InitV
    /\ InitPresetArgs

SpecPreset == InitPresetSpec /\ [][NextPreset]_vars


\* ================================================================ claims
\* A top-level call has been made and has ended: exc is its outcome.
Done == Idle /\ op.f # "none"

DoneOf(fn) == Done /\ op.f = fn

Events(kinds) == {i \in DOMAIN tr : tr[i].e \in kinds}

\* The constructor's behaviour in the call, as the trace records it.
ChoiceMade ==
    IF Events({"construct"}) = {} THEN [nh |-> 0, nc |-> 0, fail |-> FALSE]
    ELSE LET i == CHOOSE j \in Events({"construct"}) : TRUE
         IN  [nh |-> Len(tr[i].h), nc |-> Len(tr[i].c), fail |-> tr[i].x = "raise"]

\* The current state has the registry, containers, module cache and imported
\* modules of S.
SameAs(S) ==
    /\ reg = S.reg /\ hooks = S.hooks /\ cmds = S.cmds
    /\ modules = S.modules /\ sysmod = S.sysmod /\ ninst = S.ninst

\* C1: load_plugin(name) with no file <pluginsPath>/<name>.py raises
\* PluginLoadError and leaves the registry exactly as it was, whether or not
\* the name was registered.
C1_MissingFile ==
    (DoneOf("load") /\ start.file[op.p] = "missing")
        => (exc = PLE /\ reg = start.reg)

\* C1 witness: such a call has ended for a name that was in the registry.
C1_Witness ==
    DoneOf("load") /\ start.file[op.p] = "missing" /\ start.reg[op.p] # 0

C3_AsStated ==
    (DoneOf("unload") /\ exc = NoExc)
        => (hooks[op.p] = <<>> /\ cmds[op.p] = <<>> /\ reg[op.p] = 0)

\* The position of the call of unload_plugin that event i belongs to.
UnloadCallOf(i) ==
    CHOOSE j \in 1..i :
        /\ tr[j].e = "call" /\ tr[j].f = "unload"
        /\ \A k \in (j+1)..i : ~(tr[k].e = "call" /\ tr[k].f = "unload")

\* C4: in every call of unload_plugin(p) with p loaded, the first thing that
\* happens is the dispatch of the unload event, with p in the registry and
\* its hooks and commands as they were when the call began; the event is
\* dispatched once in the call, and every removal (of a hook, a command or
\* the registry entry) comes after it.
C4_DispatchFirst ==
    /\ \A i \in DOMAIN tr :
         (tr[i].e = "call" /\ tr[i].f = "unload" /\ tr[i].r # 0 /\ i < Len(tr))
            => /\ tr[i+1].e = "dispatch"
               /\ tr[i+1].r = tr[i].r /\ tr[i+1].r # 0
               /\ tr[i+1].h = tr[i].h /\ tr[i+1].c = tr[i].c
    /\ \A i \in Events({"dispatch"}) :
         i > 1 /\ tr[i-1].e = "call" /\ tr[i-1].f = "unload"
    /\ \A i \in Events({"remove_hook", "remove_command", "del"}) :
         /\ \E j \in 1..i : tr[j].e = "call" /\ tr[j].f = "unload"
         /\ tr[UnloadCallOf(i) + 1].e = "dispatch"
         /\ tr[UnloadCallOf(i) + 1].x = NoExc

\* C4 witness: an unload event has been dispatched for a plugin with two hooks
\* and a command, and a removal has followed.
C4_Witness ==
    \E i \in Events({"dispatch"}) :
        /\ Len(tr[i].h) = 2 /\ Len(tr[i].c) = 1
        /\ i < Len(tr) /\ tr[i+1].e = "remove_hook"

\* C5: unload_plugin(name) for a name that is not in the registry raises
\* PluginUnloadError, dispatches no unload event, removes no hook or command
\* of any plugin and leaves the registry unchanged.
C5_UnloadNotLoaded ==
    (DoneOf("unload") /\ start.reg[op.p] = 0)
        => /\ exc = PUE
           /\ reg = start.reg /\ hooks = start.hooks /\ cmds = start.cmds
           /\ Events({"dispatch", "remove_hook", "remove_command", "del"}) = {}

\* C5 witness: such a call has ended while another plugin was loaded with a
\* hook and a command.
C5_Witness ==
    /\ DoneOf("unload") /\ start.reg[op.p] = 0
    /\ \E o \in Names \ {op.p} :
         start.reg[o] # 0 /\ start.hooks[o] # <<>> /\ start.cmds[o] # <<>>

\* C6: for a name that is neither in the registry nor in the module cache,
\* reload_plugin(p) ends as load_plugin(p) does from the same state (with the
\* constructor behaving the same): same registry, containers, module cache,
\* imported modules and outcome; and the outcome is never PluginUnloadError.
C6_ReloadAsLoad ==
    (Done /\ op.f \in {"load", "reload"}
          /\ start.reg[op.p] = 0 /\ op.p \notin start.modules)
        => LET r == LoadOutcome(start, op.p, ChoiceMade)
           IN  SameAs(r.st) /\ exc = r.exc /\ exc # PUE

\* C6 witness: a reload of a never-loaded plugin has loaded it.
C6_Witness ==
    /\ DoneOf("reload") /\ start.reg[op.p] = 0 /\ op.p \notin start.modules
    /\ exc = NoExc /\ reg[op.p] # 0 /\ hooks[op.p] # <<>>

\* C7: whenever a call of reload_plugin(name) returns normally, at any depth,
\* the registry holds an entry for name, that entry is an instance constructed
\* during the call, and only one instance has been constructed; the instance
\* that was registered before is no longer in the registry.
C7_ReloadEndsWithOne ==
    /\ \A i \in Events({"return"}) :
         tr[i].f = "reload" =>
            /\ tr[i].r # 0
            /\ tr[i].r > start.ninst
            /\ tr[i].r # start.reg[tr[i].p]
            /\ Cardinality({j \in 1..i : tr[j].e = "construct" /\ tr[j].x = "ok"}) = 1
    /\ (DoneOf("reload") /\ exc = NoExc) => (reg[op.p] # 0 /\ reg[op.p] = ninst)

\* C7 witness: a reload of a loaded plugin has returned normally.
C7_Witness ==
    DoneOf("reload") /\ exc = NoExc /\ start.reg[op.p] # 0


\* ------------------------------------------------- failures and recursion
\* C14: when load_plugin(name) has imported the module and then fails (the
\* module has no member of that name, the member is not a Plugin subclass, or
\* the constructor raises), the call ends with name in the module cache and
\* not in the registry; and from a state with name in the module cache and not
\* in the registry, load_plugin(name) (with the file present) calls
\* import_module, calls neither reload_plugin nor unload_plugin, and does not
\* execute the module again: the imported module stays as it was.
C14_FailedLoadKeepsModule ==
    /\ (DoneOf("load") /\ exc # NoExc
          /\ \E i \in Events({"import_module"}) : tr[i].x # "raise")
        => (op.p \in modules /\ reg[op.p] = 0)
    /\ (DoneOf("load") /\ op.p \in start.modules /\ start.reg[op.p] = 0
          /\ start.file[op.p] # "missing")
        => /\ Events({"import_module"}) # {}
           /\ Events({"reload_module", "dispatch", "del"}) = {}
           /\ \A i \in Events({"call"}) : tr[i].f = "load" /\ tr[i].n = 1
           /\ sysmod[op.p] = start.sysmod[op.p]

\* C14 witness: a load that imported the module and failed before any instance
\* was constructed has been followed, after the file was repaired, by a second
\* load of the same name, which has ended.
C14_Witness ==
    /\ DoneOf("load") /\ ncalls = 2
    /\ op.p \in start.modules /\ start.reg[op.p] = 0 /\ start.ninst = 0
    /\ start.file[op.p] = "ok" /\ start.sysmod[op.p] # "ok"
    /\ Events({"import_module"}) # {}

\* C15 as stated: every error that load_plugin, unload_plugin or reload_plugin
\* lets reach its caller has been passed to log_exception before.
C15_AsStated ==
    \A i \in Events({"raise"}) :
        \E j \in 1..(i-1) : tr[j].e = "log" /\ tr[j].x = tr[i].x

\* C16 as stated: reload_plugin swallows a failure of unload_plugin only when
\* the name is not in the registry; a failure raised while the name is in the
\* registry reaches the caller of reload_plugin and is followed neither by the
\* module's re-execution nor by a load.
C16_AsStated ==
    /\ \A i \in Events({"swallow"}) : tr[i].r = 0
    /\ \A i \in Events({"raise"}) :
         (tr[i].f = "unload" /\ tr[i].r # 0 /\ i > 1 /\ tr[i-1].e = "log"
            /\ \E j \in 1..i : tr[j].e = "call" /\ tr[j].f = "reload"
                                /\ tr[j].n = tr[i].n - 1)
         => \A j \in (i+1)..Len(tr) :
               /\ tr[j].e # "reload_module"
               /\ ~(tr[j].e = "call" /\ tr[j].f = "load")

\* C18 as stated: when reload_plugin(name) is called with name loaded and
\* the step after the unload fails (the module's re-execution raises, or the
\* load_plugin that follows raises), the error reaches the caller and the call
\* ends with no registry entry for name.
C18_AsStated ==
    (DoneOf("reload") /\ start.reg[op.p] # 0
        /\ \/ \E i \in Events({"reload_module"}) : ~ReExecutes(tr[i].x)
           \/ \E i \in Events({"raise"}) : tr[i].f = "load" /\ tr[i].n = 2)
    => (exc # NoExc /\ reg[op.p] = 0)

\* The hooks (kind "remove_hook") or commands (kind "remove_command") that the
\* call has removed.
Removed(kind) == {tr[i].n : i \in {j \in Events({kind}) : tr[j].x = NoExc}}

Items(list) == {list[k] : k \in DOMAIN list}

\* C19: when unload_plugin(name) fails after it has started (the dispatch of
\* the unload event, remove_hook or remove_command raises), name is in the
\* registry, with the same instance, when the error reaches the caller, and
\* the hooks and commands removed before the failure are no longer in the
\* plugin's containers; nothing else has left them.
C19_FailedUnloadKeepsEntry ==
    /\ \A i \in Events({"raise"}) :
         (tr[i].f = "unload" /\ i > 1 /\ tr[i-1].e = "log")
            => (tr[i].r # 0 /\ tr[i-1].r # 0)
    /\ (DoneOf("unload") /\ start.reg[op.p] # 0 /\ exc # NoExc)
        => /\ reg = start.reg
           /\ Events({"del"}) = {}
           /\ Items(hooks[op.p]) = Items(start.hooks[op.p]) \ Removed("remove_hook")
           /\ Items(cmds[op.p]) = Items(start.cmds[op.p]) \ Removed("remove_command")

\* C19 witness: an unload has failed in remove_command after a hook had been
\* removed.
C19_Witness ==
    /\ DoneOf("unload") /\ start.reg[op.p] # 0 /\ exc # NoExc
    /\ Removed("remove_hook") # {}
    /\ Len(hooks[op.p]) < Len(start.hooks[op.p])
    /\ \E i \in Events({"remove_command"}) : tr[i].x # NoExc

\* C20 as stated: in a call of load_plugin(name), whatever the registry holds
\* and however the unload step fails, reload_plugin is called at most once
\* and it calls load_plugin at most once, and that load does not go through
\* reload_plugin.
C20_AsStated ==
    op.f = "load"
        => /\ Cardinality({i \in Events({"call"}) : tr[i].f = "reload"}) <= 1
           /\ Cardinality({i \in Events({"call"}) : tr[i].f = "load"}) <= 2
           /\ \A i \in Events({"call"}) : tr[i].n <= 3


\* ------------------------------------------------------------ frame tasks
\* C8 as stated: a task entered by a next_frame-wrapped call made in tick T,
\* also one made by a task that the pump of tick T is running, runs in the pump
\* of tick T + 1.
C8_AsStated ==
    \A i \in DOMAIN xlog :
        xlog[i].via = "next_frame" => xlog[i].xtick = xlog[i].stick + 1

\* C9: the tasks entered through next_frame and delay run in ascending
\* (fire-time, priority, insertion sequence) order, within a pump call and
\* across pump calls; both wrappers enter with priority 0, so tasks with equal
\* fire-time run in the order in which they were scheduled.
C9_RunOrder ==
    \A i \in 1..(Len(xlog) - 1) :
        /\ Before(xlog[i], xlog[i+1])
        /\ xlog[i].time = xlog[i+1].time => xlog[i].seq < xlog[i+1].seq

\* C9 witness: a next_frame task and a delay task with the same fire-time have
\* run in one pump call, and a task has run in a later pump call.
C9_Witness ==
    /\ Len(xlog) >= 3
    /\ xlog[1].time = xlog[2].time /\ xlog[1].xtick = xlog[2].xtick
    /\ xlog[1].via # xlog[2].via
    /\ xlog[3].xtick > xlog[2].xtick

\* Task t was entered after the k-th pump call had returned.
EnteredAfterPump(t, k) == t.stick > k \/ (t.stick = k /\ ~t.spump)

\* C10: a task entered by a delay(seconds) wrapper does not run before
\* `seconds` have passed since the call; no pump call returns leaving a task
\* whose fire-time had come (so the task runs in the first pump call at or
\* after its fire-time, and all the tasks that became due meanwhile run in that
\* one call); and the tasks of one pump call run in fire-time order.
C10_DelayedTasks ==
    /\ \A i \in DOMAIN xlog :
         xlog[i].via = "delay" => xlog[i].xnow >= xlog[i].at + xlog[i].d
    /\ \A k \in DOMAIN pends :
         /\ \A t \in queue :
              t.time <= pends[k] => EnteredAfterPump(t, k)
         /\ \A i \in DOMAIN xlog :
              (xlog[i].xtick > k /\ xlog[i].time <= pends[k])
                 => EnteredAfterPump(xlog[i], k)
    /\ \A i \in 1..(Len(xlog) - 1) :
         xlog[i].xtick = xlog[i+1].xtick => xlog[i].time <= xlog[i+1].time

\* C10 witness: a pump call that found a delayed task not yet due has returned,
\* and the next pump call has run that task and another delayed task, due at
\* different times, in one burst, the one scheduled last first.
C10_Witness ==
    /\ Len(xlog) >= 2 /\ Len(pends) >= 1
    /\ xlog[1].via = "delay" /\ xlog[2].via = "delay"
    /\ xlog[2].d > 0
    /\ xlog[2].stick = 0 /\ xlog[2].time > pends[1]
    /\ xlog[1].time < xlog[2].time /\ xlog[1].seq > xlog[2].seq
    /\ xlog[1].xtick = 2 /\ xlog[2].xtick = 2


\* ----------------------------------------------------------------- threads
\* The threads started under call c of mcalls.
StartedUnder(c) == {t \in 2..Len(thr) : thr[t].root = c}

\* Call c of mcalls has returned and every thread started under it has ended.
Settled(c) ==
    /\ thr[1].root # c \/ thr[1].pc = "idle"
    /\ \A t \in StartedUnder(c) : thr[t].pc = "done"

\* C11: when a thread-wrapped function called from the main thread calls
\* another thread-wrapped function, one thread is started and the inner
\* function runs inline on it if the inner wrapper has force=False; two
\* threads are started, and nothing runs inline, if it has force=True. (A
\* function that calls no wrapped function: one thread.)
C11_NestedOffload ==
    \A c \in DOMAIN mcalls :
        Settled(c) =>
            CASE mcalls[c].body = "inner" ->
                    Cardinality(StartedUnder(c)) = 1 /\ inl[c] = 1
              [] mcalls[c].body = "innerForce" ->
                    Cardinality(StartedUnder(c)) = 2 /\ inl[c] = 0
              [] OTHER ->
                    Cardinality(StartedUnder(c)) = 1 /\ inl[c] = 0

\* C11 witness: two calls from the main thread have been settled, one whose
\* function calls a wrapper without force and one whose function calls a
\* wrapper with force.
C11_Witness ==
    /\ Len(mcalls) = 2 /\ Settled(1) /\ Settled(2)
    /\ mcalls[1].body = "innerForce" /\ mcalls[2].body = "inner"

\* The threads started so far have strictly increasing tags, in the order in
\* which they were started.
TagsIncrease ==
    \A i, j \in 2..Len(thr) : i < j => thr[i].name.tag < thr[j].name.tag

\* C12 as stated: under every interleaving each started thread's tag is
\* greater than the tag of every thread started before it, and the counter
\* never decreases.
C12_AsStated == [][TagsIncrease' /\ _thread_count' >= _thread_count]_vars


\* ---------------------------------------------------------- parse_variables
\* The number of backslashes in s.
CountBS(s) == Cardinality({i \in DOMAIN s : s[i] = BS})

\* The number of backslashes that s starts with.
Leading(s) ==
    Cardinality({i \in DOMAIN s : \A k \in 1..i : s[k] = BS})

\* C13 as stated: for a non-blank input, parse_variables raises, echoing the
\* input, when the input without one leading backslash (if it has one) splits
\* on backslash into an odd number of tokens, and returns when that number is
\* even.
C13_AsStated ==
    (result.kind # "none" /\ Strip(varstr) # <<>>)
        => LET one == IF Leading(varstr) > 0 THEN 1 ELSE 0
               tokens == CountBS(varstr) - one + 1
           IN  IF tokens % 2 = 1
               THEN result.kind = "raise" /\ result.msg = varstr
               ELSE result.kind = "return"

\* C13 amended: for a non-blank input, parse_variables raises, echoing the
\* input, when the input without all of its leading backslashes splits on
\* backslash into an odd number of tokens, and when that number is even it
\* returns a mapping (of the kind asked for) with one key at least and half
\* as many keys as tokens at most.
C13_UnevenTokens ==
    (result.kind # "none" /\ Strip(varstr) # <<>>)
        => LET tokens == CountBS(varstr) - Leading(varstr) + 1
           IN  IF tokens % 2 = 1
               THEN result.kind = "raise" /\ result.msg = varstr
               ELSE /\ result.kind = "return"
                    /\ result.ordered = ordered
                    /\ Len(result.items) >= 1
                    /\ 2 * Len(result.items) <= tokens

\* C13 witness: a call with an input that starts with two backslashes and has
\* an even number of tokens after them has returned a mapping.
C13_Witness ==
    /\ result.kind = "return" /\ Leading(varstr) = 2
    /\ Len(result.items) = 1

\* ------------------------------------------------------ load_preset_plugins
\* The names of the entries of list whose module S does not have imported.
RECURSIVE NotImported(_, _)
NotImported(list, S) ==
    IF list = <<>> THEN <<>>
    ELSE (IF S.sysmod[Head(list).name] = "none" THEN <<Head(list).name>> ELSE <<>>)
         \o NotImported(Tail(list), S)

\* C17 as stated: with the plugins directory there, a call of
\* load_preset_plugins (in which no load_plugin raises) has called load_plugin
\* once, in list order, for each listed name whose module was not imported and
\* for no other name; with no plugins directory the call raises and has not
\* called load_plugin.
C17_AsStated ==
    /\ pres = "return" => (isdir /\ pcalls = NotImported(plugins_cvar, start))
    /\ (pres # "none" /\ ~isdir) => (pres = PLE /\ pcalls = <<>>)

====
